---- MODULE Spec2Model ----
(***************************************************************************)
(* Model of hongdown's serializer helpers and configuration discovery.     *)
(*                                                                         *)
(*   src/src/serializer/escape.rs  escape_text, format_code_span,          *)
(*                                 is_valid_code_span, escape_table_cell   *)
(*   src/src/serializer/code.rs    the three code-block renderers          *)
(*   src/src/serializer/table.rs   serialize_table                         *)
(*   src/src/config.rs             Config::discover                        *)
(*                                                                         *)
(* A Rust string is a sequence of characters; a character is a one-element *)
(* TLA+ string.  "U+00E9" stands for one character whose UTF-8 encoding    *)
(* takes two bytes and "BACKTICK" for the backtick character.  Rust        *)
(* indexes from 0, the sequences here from 1.                              *)
(***************************************************************************)
EXTENDS Integers, Sequences, FiniteSets, TLC

VARIABLES
    pc,             \* position of the modelled call: "start", then the name of the finished call
    text,           \* escape_text: argument
    content,        \* format_code_span / escape_table_cell: argument
    source,         \* is_valid_code_span: argument
    result,         \* value returned by the function of escape.rs that ran
    literal,        \* code block: NodeCodeBlock.literal
    info,           \* code block: NodeCodeBlock.info
    indent,         \* code block: indent argument
    config,         \* the loaded Config (code_block section)
    in_block_quote, \* Serializer.in_block_quote
    output,         \* Serializer.output
    alignments,     \* NodeTable.alignments
    rows,           \* table: per row, the inline content collected for each cell
    fs,             \* discover: what sits at <dir>/.hongdown.toml, per directory depth
    cwd,            \* discover: depth of the process's working directory
    start_dir,      \* discover: argument
    current,        \* discover: local variable current
    examined,       \* discover: directories whose config_path.exists() was evaluated, in order
    ret             \* discover: returned value

escVars   == <<text, content, source, result>>
codeVars  == <<literal, info, indent, config>>
serVars   == <<in_block_quote, output>>
tableVars == <<alignments, rows>>
discVars  == <<fs, cwd, start_dir, current, examined, ret>>
vars      == <<pc, escVars, codeVars, serVars, tableVars, discVars>>

----------------------------------------------------------------------------
(* Bounds                                                                  *)

MaxTextLen    == 4   \* escape_text arguments
MaxContentLen == 5   \* format_code_span arguments
MaxSourceLen  == 5   \* is_valid_code_span arguments
MaxCellLen    == 5   \* escape_table_cell arguments
MaxLiteralLen == 5   \* code block literals
MaxRows       == 2   \* rows of a table (the first is the header)
MaxTableCells == 3   \* cells of a table, all rows together
MaxColumns    == 2   \* entries of a table's alignment list
MaxDepth      == 3   \* depth of the deepest directory below the filesystem root

----------------------------------------------------------------------------
(* Generic helpers                                                         *)

SeqsUpTo(S, n) == UNION {[1..k -> S] : k \in 0..n}

Max(a, b) == IF a >= b THEN a ELSE b

\* "c".repeat(n)
Repeat(c, n) == [k \in 1..n |-> c]

RECURSIVE Flatten(_)
Flatten(ss) == IF ss = <<>> THEN <<>> ELSE Head(ss) \o Flatten(Tail(ss))

\* chars().take_while(|&c| c == ch).count()
RECURSIVE TakeWhileCount(_, _)
TakeWhileCount(s, ch) ==
    IF s # <<>> /\ Head(s) = ch THEN 1 + TakeWhileCount(Tail(s), ch) ELSE 0

Reverse(s) == [k \in 1..Len(s) |-> s[Len(s) + 1 - k]]

\* UTF-8 length of one character
Utf8Len(c) == IF c = "U+00E9" THEN 2 ELSE 1

\* str::len(): the length in bytes
RECURSIVE ByteLen(_)
ByteLen(s) == IF s = <<>> THEN 0 ELSE Utf8Len(Head(s)) + ByteLen(Tail(s))

\* values of the variables a specification does not use
NoEsc   == text = <<>> /\ content = <<>> /\ source = <<>> /\ result = <<>>
NoCode  == literal = <<>> /\ info = <<>> /\ indent = <<>>
              /\ config = [fence_char |-> "~", min_fence_length |-> 4]
NoSer   == in_block_quote = FALSE /\ output = <<>>
NoTable == alignments = <<>> /\ rows = <<>>
NoDisc  == fs = <<>> /\ cwd = 0 /\ start_dir = [absolute |-> TRUE, components |-> 0]
              /\ current = [absolute |-> TRUE, components |-> 0]
              /\ examined = <<>> /\ ret = "pending"

----------------------------------------------------------------------------
(* escape.rs: escape_text                                                  *)

Backtick == "BACKTICK"

TextChars == {"a", "_", "*", "[", "]", "(", "\\", Backtick}

Escaped(ch) == <<"\\", ch>>

\* the rule of intraword underscores: escape unless both neighbours are alphanumeric
escape_underscore_intraword(chars, i) ==
    IF /\ i > 1 /\ i < Len(chars)
       /\ chars[i - 1] = "a" /\ chars[i + 1] = "a"
    THEN <<chars[i]>> ELSE Escaped(chars[i])

\* the '_' arm
escape_underscore(chars, i) == Escaped(chars[i])

\* a '[' arm without the end-of-text test
escape_open_bracket_no_end_check(chars, i) ==
    LET next_is_bracket == i + 1 <= Len(chars) /\ chars[i + 1] = "["
    IN  IF next_is_bracket THEN <<chars[i]>> ELSE Escaped(chars[i])

\* the '[' arm
escape_open_bracket(chars, i) ==
    LET next_is_bracket == i + 1 <= Len(chars) /\ chars[i + 1] = "["
        at_end          == i + 1 > Len(chars)
    IN  IF next_is_bracket \/ at_end THEN <<chars[i]>> ELSE Escaped(chars[i])

\* a ']' arm that looks only behind: escapes every ']' that is not first and not after ']'
escape_close_bracket_no_lookahead(chars, i) ==
    LET prev_is_bracket == i > 1 /\ chars[i - 1] = "]"
        at_start        == i = 1
    IN  IF prev_is_bracket \/ at_start THEN <<chars[i]>> ELSE Escaped(chars[i])

\* the ']' arm
escape_close_bracket(chars, i) ==
    LET prev_is_bracket == i > 1 /\ chars[i - 1] = "]"
        at_start        == i = 1
        at_end          == i + 1 > Len(chars)
        next_could_continue_link ==
            i + 1 <= Len(chars) /\ (chars[i + 1] = "(" \/ chars[i + 1] = "[")
    IN  IF prev_is_bracket \/ at_start \/ at_end \/ ~next_could_continue_link
        THEN <<chars[i]>> ELSE Escaped(chars[i])

\* a match without the backtick arm
escape_char_backtick_unescaped(chars, i) ==
    LET ch == chars[i]
    IN  CASE ch = "*"  -> Escaped(ch)
          [] ch = "_"  -> escape_underscore(chars, i)
          [] ch = "["  -> escape_open_bracket(chars, i)
          [] ch = "]"  -> escape_close_bracket(chars, i)
          [] ch = "\\" -> Escaped(ch)
          [] OTHER     -> <<ch>>

\* the match on one character
escape_char(chars, i) ==
    LET ch == chars[i]
    IN  CASE ch = "*"  -> Escaped(ch)
          [] ch = "_"  -> escape_underscore(chars, i)
          [] ch = "["  -> escape_open_bracket(chars, i)
          [] ch = "]"  -> escape_close_bracket(chars, i)
          [] ch = "\\" -> Escaped(ch)
          [] ch = Backtick -> Escaped(ch)
          [] OTHER     -> <<ch>>

\* the for loop over chars.iter().enumerate()
RECURSIVE escape_text_loop(_, _, _)
escape_text_loop(chars, i, acc) ==
    IF i > Len(chars) THEN acc
    ELSE escape_text_loop(chars, i + 1, acc \o escape_char(chars, i))

escape_text(t) == escape_text_loop(t, 1, <<>>)

InitEscapeText ==
    /\ pc = "start"
    /\ text \in SeqsUpTo(TextChars, MaxTextLen)
    /\ content = <<>> /\ source = <<>> /\ result = <<>>
    /\ NoCode /\ NoSer /\ NoTable /\ NoDisc

EscapeText ==
    /\ pc = "start"
    /\ result' = escape_text(text)
    /\ pc' = "escape_text"
    /\ UNCHANGED <<text, content, source, codeVars, serVars, tableVars, discVars>>

NextEscapeText == EscapeText

SpecEscapeText == InitEscapeText /\ [][NextEscapeText]_vars

----------------------------------------------------------------------------
(* Reading escaped text back                                               *)

\* What a Markdown reader sees in escaped text: a backslash followed by a
\* character is that character, escaped; any other character stands for itself.
RECURSIVE Tokens(_)
Tokens(out) ==
    IF out = <<>> THEN <<>>
    ELSE IF Head(out) = "\\" /\ Len(out) >= 2
         THEN <<[ch |-> out[2], esc |-> TRUE]>> \o Tokens(Tail(Tail(out)))
         ELSE <<[ch |-> Head(out), esc |-> FALSE]>> \o Tokens(Tail(out))

IsAlphanumeric(c) == c \in {"a", "U+00E9"}

\* the underscore at position i stands between two alphanumeric characters
Intraword(t, i) ==
    /\ i > 1 /\ i < Len(t)
    /\ IsAlphanumeric(t[i - 1]) /\ IsAlphanumeric(t[i + 1])

\* characters escape_text never escapes
PlainChars == TextChars \ {"*", "_", "[", "]", "\\", Backtick}

\* t is "[" + w + "]" for a non-empty word w of plain characters
BracketedWord(t) ==
    /\ Len(t) >= 3
    /\ t[1] = "[" /\ t[Len(t)] = "]"
    /\ \A k \in 2..(Len(t) - 1) : t[k] \in PlainChars

----------------------------------------------------------------------------
(* Claims about escape_text                                                *)

\* C2 (as stated): an underscore is escaped with one backslash exactly when
\* it is not intraword; an underscore between two alphanumeric characters is
\* copied unchanged.
C2_UnderscoreEscapedUnlessIntraword ==
    pc = "escape_text" =>
        LET t == Tokens(result)
        IN  /\ Len(t) = Len(text)
            /\ \A i \in 1..Len(text) :
                  text[i] = "_" => (t[i].esc <=> ~Intraword(text, i))

\* C2 (amended): every underscore of the text, intraword or not, comes out
\* as the underscore preceded by one inserted backslash, and the escaped
\* text reads back as the original text.
C2_EveryUnderscoreEscaped ==
    pc = "escape_text" =>
        LET t == Tokens(result)
        IN  /\ Len(t) = Len(text)
            /\ \A i \in 1..Len(text) :
                  /\ t[i].ch = text[i]
                  /\ text[i] = "_" => t[i].esc

C2_Witness ==
    /\ pc = "escape_text"
    /\ text = <<"a", "_", "a">>
    /\ result = <<"a", "\\", "_", "a">>

\* C3 (as stated): both brackets of a bracketed word are escaped:
\* escape_text("[" + w + "]") = "\[" + w + "\]".
C3_BothBracketsEscaped ==
    (pc = "escape_text" /\ BracketedWord(text)) =>
        result = <<"\\", "[">> \o SubSeq(text, 2, Len(text) - 1) \o <<"\\", "]">>

\* C3 (amended): only the opening bracket of a bracketed word is escaped;
\* the closing bracket, being the last character, is copied unchanged:
\* escape_text("[" + w + "]") = "\[" + w + "]".
C3_OnlyOpeningBracketEscaped ==
    (pc = "escape_text" /\ BracketedWord(text)) =>
        result = <<"\\", "[">> \o SubSeq(text, 2, Len(text) - 1) \o <<"]">>

C3_Witness ==
    /\ pc = "escape_text"
    /\ text = <<"[", "a", "a", "]">>
    /\ result = <<"\\", "[", "a", "a", "]">>


\* C11: every asterisk, backslash and backtick of the text comes out preceded
\* by one inserted backslash, wherever it stands; every character other than
\* * _ [ ] \ and the backtick comes out unescaped; the characters keep their
\* order, and nothing but the inserted backslashes is added.
C11_AlwaysEscapedAndPlainUnchanged ==
    pc = "escape_text" =>
        LET t == Tokens(result)
            n == Cardinality({i \in 1..Len(t) : t[i].esc})
        IN  /\ Len(t) = Len(text)
            /\ Len(result) = Len(text) + n
            /\ \A i \in 1..Len(text) :
                  /\ t[i].ch = text[i]
                  /\ text[i] \in {"*", "\\", Backtick} => t[i].esc
                  /\ text[i] \in PlainChars => ~t[i].esc

C11_Witness ==
    /\ pc = "escape_text"
    /\ text = <<"*", "a", "\\", Backtick>>
    /\ result = <<"\\", "*", "a", "\\", "\\", "\\", Backtick>>

\* C12: a '[' is escaped unless it is the last character or is followed by
\* another '['; a ']' is escaped exactly when it is not first, not last, not
\* preceded by ']' and followed by '(' or '['; otherwise the bracket is
\* copied unchanged.
C12_BracketsEscapedOnlyWhereLinkLike ==
    pc = "escape_text" =>
        LET t == Tokens(result)
        IN  /\ Len(t) = Len(text)
            /\ \A i \in 1..Len(text) :
                  /\ text[i] = "[" =>
                        (t[i].esc <=> ~(i = Len(text) \/ text[i + 1] = "["))
                  /\ text[i] = "]" =>
                        (t[i].esc <=> /\ i > 1
                                      /\ i < Len(text)
                                      /\ text[i - 1] # "]"
                                      /\ text[i + 1] \in {"(", "["})

C12_Witness ==
    /\ pc = "escape_text"
    /\ text = <<"[", "a", "]", "(">>
    /\ result = <<"\\", "[", "a", "\\", "]", "(">>

----------------------------------------------------------------------------
(* escape.rs: format_code_span                                             *)

SpanChars == {Backtick, " ", "a"}

\* the for loop that tracks current_consecutive and max_consecutive
RECURSIVE max_consecutive_loop(_, _, _)
max_consecutive_loop(chars, current_consecutive, max_consecutive) ==
    IF chars = <<>> THEN max_consecutive
    ELSE IF Head(chars) = Backtick
         THEN max_consecutive_loop(Tail(chars), current_consecutive + 1,
                                   Max(max_consecutive, current_consecutive + 1))
         ELSE max_consecutive_loop(Tail(chars), 0, max_consecutive)

\* a delimiter as long as the longest run, not one longer
delimiter_count_same_length(max_consecutive) ==
    IF max_consecutive > 0 THEN max_consecutive ELSE 1

delimiter_count(max_consecutive) ==
    IF max_consecutive > 0 THEN max_consecutive + 1 ELSE 1

needs_space(c) ==
    IF c = <<>> THEN FALSE
    ELSE LET first == c[1]
             last  == c[Len(c)]
         IN  first = Backtick \/ last = Backtick

format_code_span(c) ==
    LET delimiter == Repeat(Backtick, delimiter_count(max_consecutive_loop(c, 0, 0)))
    IN  IF needs_space(c)
        THEN delimiter \o <<" ">> \o c \o <<" ">> \o delimiter
        ELSE delimiter \o c \o delimiter

InitFormatCodeSpan ==
    /\ pc = "start"
    /\ content \in SeqsUpTo(SpanChars, MaxContentLen)
    /\ text = <<>> /\ source = <<>> /\ result = <<>>
    /\ NoCode /\ NoSer /\ NoTable /\ NoDisc

FormatCodeSpan ==
    /\ pc = "start"
    /\ result' = format_code_span(content)
    /\ pc' = "format_code_span"
    /\ UNCHANGED <<text, content, source, codeVars, serVars, tableVars, discVars>>

NextFormatCodeSpan == FormatCodeSpan

SpecFormatCodeSpan == InitFormatCodeSpan /\ [][NextFormatCodeSpan]_vars

\* s contains k consecutive backticks
HasRun(s, k) ==
    k = 0 \/ \E i \in 1..(Len(s) - k + 1) : \A j \in i..(i + k - 1) : s[j] = Backtick

\* the length of the longest run of consecutive backticks in s
LongestRun(s) == CHOOSE k \in 0..Len(s) : HasRun(s, k) /\ ~HasRun(s, k + 1)

\* C4: the result is delimiter, optional one-space padding, the content, the
\* same padding, the same delimiter, where the delimiter is a run of
\* (longest backtick run of the content) + 1 backticks, 1 when the content
\* has no backtick; the content has no backtick run as long as the delimiter.
C4_DelimiterOneLongerThanLongestRun ==
    pc = "format_code_span" =>
        LET n == LongestRun(content) + 1
            d == Repeat(Backtick, n)
        IN  /\ \E pad \in {<<>>, <<" ">>} : result = d \o pad \o content \o pad \o d
            /\ ~HasRun(content, n)
            /\ (\A i \in 1..Len(content) : content[i] # Backtick) => n = 1

C4_Witness ==
    /\ pc = "format_code_span"
    /\ content = <<"a", Backtick, Backtick, "a", Backtick>>
    /\ result = <<Backtick, Backtick, Backtick, " ">> \o content
                    \o <<" ", Backtick, Backtick, Backtick>>

\* the padding rule of the function's doc comment
PaddingRequired(c) ==
    /\ c # <<>>
    /\ c[1] \in {Backtick, " "} \/ c[Len(c)] \in {Backtick, " "}
    /\ \E i \in 1..Len(c) : c[i] # " "

\* C5: exactly one space between each delimiter and the content when the
\* content starts or ends with a backtick or a space and is not all spaces;
\* no padding otherwise.
C5_PaddedOnBacktickOrSpace ==
    pc = "format_code_span" =>
        LET pad == IF PaddingRequired(content) THEN <<" ">> ELSE <<>>
        IN  \E n \in 1..(Len(content) + 1) :
                result = Repeat(Backtick, n) \o pad \o content
                            \o pad \o Repeat(Backtick, n)

----------------------------------------------------------------------------
(* escape.rs: is_valid_code_span                                           *)

SourceChars == {Backtick, "a", "U+00E9"}

\* true whenever the two runs of backticks have the same length
is_valid_code_span_no_length_check(s) ==
    IF s = <<>> THEN FALSE
    ELSE LET leading_backticks == TakeWhileCount(s, Backtick)
         IN  IF leading_backticks = 0 THEN FALSE
             ELSE leading_backticks = TakeWhileCount(Reverse(s), Backtick)

is_valid_code_span(s) ==
    IF s = <<>> THEN FALSE
    ELSE LET leading_backticks == TakeWhileCount(s, Backtick)
         IN  IF leading_backticks = 0 THEN FALSE
             ELSE LET trailing_backticks == TakeWhileCount(Reverse(s), Backtick)
                  IN  /\ leading_backticks = trailing_backticks
                      /\ leading_backticks <= ByteLen(s) \div 2

InitIsValidCodeSpan ==
    /\ pc = "start"
    /\ source \in SeqsUpTo(SourceChars, MaxSourceLen)
    /\ text = <<>> /\ content = <<>> /\ result = <<>>
    /\ NoCode /\ NoSer /\ NoTable /\ NoDisc

IsValidCodeSpan ==
    /\ pc = "start"
    /\ result' = is_valid_code_span(source)
    /\ pc' = "is_valid_code_span"
    /\ UNCHANGED <<text, content, source, codeVars, serVars, tableVars, discVars>>

NextIsValidCodeSpan == IsValidCodeSpan

SpecIsValidCodeSpan == InitIsValidCodeSpan /\ [][NextIsValidCodeSpan]_vars

\* s opens with exactly n backticks, closes with exactly n backticks, and the
\* opening run is at most half of s (lengths counted in characters)
WellDelimited(s, n) ==
    /\ 2 * n <= Len(s)
    /\ \A i \in 1..n : s[i] = Backtick /\ s[Len(s) + 1 - i] = Backtick
    /\ s[n + 1] # Backtick
    /\ s[Len(s) - n] # Backtick

\* C7: is_valid_code_span(source) is true exactly when source starts with at
\* least one backtick, ends with a run of backticks of the same length, and
\* the leading run is at most half the length of source.
C7_ValidIffMatchingRuns ==
    pc = "is_valid_code_span" =>
        (result <=> \E n \in 1..Len(source) : WellDelimited(source, n))

C7_Witness ==
    /\ pc = "is_valid_code_span"
    /\ source = <<Backtick, Backtick, "a", Backtick, Backtick>>
    /\ result = TRUE

----------------------------------------------------------------------------
(* escape.rs: escape_table_cell                                            *)

CellChars == {"a", "|", "\\"}

\* one iteration that does not look for an existing escape
cell_step_ignoring_escapes(chars, i) ==
    IF chars[i] = "|"
    THEN [out |-> <<"\\", "|">>, next |-> i + 1]
    ELSE [out |-> <<chars[i]>>, next |-> i + 1]

\* one iteration of the while loop: what it pushes and the next value of i
cell_step(chars, i) ==
    IF chars[i] = "\\" /\ i + 1 <= Len(chars)
    THEN [out |-> <<chars[i], chars[i + 1]>>, next |-> i + 2]
    ELSE IF chars[i] = "|"
         THEN [out |-> <<"\\", "|">>, next |-> i + 1]
         ELSE [out |-> <<chars[i]>>, next |-> i + 1]

RECURSIVE escape_table_cell_loop(_, _, _)
escape_table_cell_loop(chars, i, acc) ==
    IF i > Len(chars) THEN acc
    ELSE LET s == cell_step(chars, i)
         IN  escape_table_cell_loop(chars, s.next, acc \o s.out)

escape_table_cell(c) == escape_table_cell_loop(c, 1, <<>>)

InitEscapeTableCell ==
    /\ pc = "start"
    /\ content \in SeqsUpTo(CellChars, MaxCellLen)
    /\ text = <<>> /\ source = <<>> /\ result = <<>>
    /\ NoCode /\ NoSer /\ NoTable /\ NoDisc

EscapeTableCell ==
    /\ pc = "start"
    /\ result' = escape_table_cell(content)
    /\ pc' = "escape_table_cell"
    /\ UNCHANGED <<text, content, source, codeVars, serVars, tableVars, discVars>>

NextEscapeTableCell == EscapeTableCell

SpecEscapeTableCell == InitEscapeTableCell /\ [][NextEscapeTableCell]_vars

\* the number of consecutive backslashes that stand right before position i
BackslashesBefore(s, i) ==
    CHOOSE k \in 0..(i - 1) :
        /\ \A j \in (i - k)..(i - 1) : s[j] = "\\"
        /\ (i - k = 1 \/ s[i - k - 1] # "\\")

\* the character at position i is escaped: an odd run of backslashes precedes it
AlreadyEscaped(s, i) == BackslashesBefore(s, i) % 2 = 1

\* C6: the result is the content with one backslash inserted before every
\* pipe that is not already escaped and nothing else changed, and escaping
\* the result again returns it unchanged.
C6_EscapesUnescapedPipesOnce ==
    pc = "escape_table_cell" =>
        /\ result = Flatten([i \in 1..Len(content) |->
                        IF content[i] = "|" /\ ~AlreadyEscaped(content, i)
                        THEN <<"\\", "|">> ELSE <<content[i]>>])
        /\ \A i \in 1..Len(result) : result[i] = "|" => AlreadyEscaped(result, i)
        /\ escape_table_cell(result) = result

C6_Witness ==
    /\ pc = "escape_table_cell"
    /\ content = <<"|", "a", "\\", "|", "|">>
    /\ result = <<"\\", "|", "a", "\\", "|", "\\", "|">>


----------------------------------------------------------------------------
(* code.rs: the three code-block renderers                                 *)

LiteralChars == {"~", " ", "a", "\n"}

Infos   == {<<>>, <<"r", "s">>}
Indents == {<<>>, <<" ", " ">>}

\* the Config values a run may have loaded (config.rs, CodeBlockConfig)
Configs ==
    { [fence_char |-> "~",      min_fence_length |-> 4],
      [fence_char |-> "~",      min_fence_length |-> 6],
      [fence_char |-> Backtick, min_fence_length |-> 3] }

\* str::lines(): the pieces between "\n"; a final empty piece is dropped
RECURSIVE lines_loop(_, _, _)
lines_loop(s, cur, acc) ==
    IF s = <<>> THEN (IF cur = <<>> THEN acc ELSE Append(acc, cur))
    ELSE IF Head(s) = "\n" THEN lines_loop(Tail(s), <<>>, Append(acc, cur))
         ELSE lines_loop(Tail(s), Append(cur, Head(s)), acc)

Lines(s) == lines_loop(s, <<>>, <<>>)

\* str::trim_start()
RECURSIVE trim_start(_)
trim_start(line) ==
    IF line # <<>> /\ Head(line) = " " THEN trim_start(Tail(line)) ELSE line

\* literal.contains("~~~~")
contains_four_tildes(lit) ==
    \E i \in 1..(Len(lit) - 3) : \A j \in i..(i + 3) : lit[j] = "~"

\* let min_fence_length = 4;
min_fence_length == 4

\* .lines().filter_map(..).max().unwrap_or(0)
RECURSIVE max_tildes_loop(_, _)
max_tildes_loop(ls, best) ==
    IF ls = <<>> THEN best
    ELSE LET trimmed == trim_start(Head(ls))
         IN  IF trimmed # <<>> /\ Head(trimmed) = "~"
             THEN max_tildes_loop(Tail(ls), Max(best, TakeWhileCount(trimmed, "~")))
             ELSE max_tildes_loop(Tail(ls), best)

max_tildes_in_content(lit) == max_tildes_loop(Lines(lit), 0)

fence_length(lit) == Max(min_fence_length, max_tildes_in_content(lit) + 1)

\* if self.in_block_quote { self.output.push_str("> "); }
quote_prefix(q) == IF q THEN <<">", " ">> ELSE <<>>

\* what serialize_code_block_with_indent appends to the output
serialize_code_block_with_indent(inf, lit, ind) ==
    LET fence == IF contains_four_tildes(lit) THEN Repeat("~", 5) ELSE Repeat("~", 4)
        ls    == Lines(lit)
    IN  fence
        \o (IF inf # <<>> THEN <<" ">> \o inf ELSE <<>>)
        \o <<"\n">>
        \o Flatten([k \in 1..Len(ls) |-> ind \o ls[k] \o <<"\n">>])
        \o (IF lit # <<>> /\ lit[Len(lit)] # "\n" THEN <<"\n">> ELSE <<>>)
        \o ind \o fence \o <<"\n">>

\* a serialize_code_block that leaves the content lines without the prefix
serialize_code_block_content_unquoted(q, inf, lit) ==
    LET fence    == Repeat("~", fence_length(lit))
        language == IF inf = <<>> THEN <<"t", "e", "x", "t">> ELSE inf
        ls       == Lines(lit)
    IN  quote_prefix(q) \o fence \o <<" ">> \o language \o <<"\n">>
        \o Flatten([k \in 1..Len(ls) |-> ls[k] \o <<"\n">>])
        \o quote_prefix(q) \o fence \o <<"\n">>

\* what serialize_code_block appends to the output
serialize_code_block(q, inf, lit) ==
    LET fence    == Repeat("~", fence_length(lit))
        language == IF inf = <<>> THEN <<"t", "e", "x", "t">> ELSE inf
        ls       == Lines(lit)
    IN  quote_prefix(q) \o fence \o <<" ">> \o language \o <<"\n">>
        \o Flatten([k \in 1..Len(ls) |-> quote_prefix(q) \o ls[k] \o <<"\n">>])
        \o quote_prefix(q) \o fence \o <<"\n">>

\* what serialize_code_block_indented appends to the output
serialize_code_block_indented(q, inf, lit, ind) ==
    LET fence == Repeat("~", fence_length(lit))
        ls    == Lines(lit)
    IN  fence
        \o (IF inf # <<>> THEN <<" ">> \o inf ELSE <<>>)
        \o <<"\n">>
        \o Flatten([k \in 1..Len(ls) |->
                quote_prefix(q)
                \o (IF ls[k] # <<>> THEN ind \o ls[k] ELSE <<>>)
                \o <<"\n">>])
        \o quote_prefix(q) \o ind \o fence \o <<"\n">>

InitCode ==
    /\ pc = "start"
    /\ literal \in SeqsUpTo(LiteralChars, MaxLiteralLen)
    /\ config \in Configs
    /\ in_block_quote \in BOOLEAN
    /\ info = <<>> /\ indent = <<>> /\ output = <<>>
    /\ NoEsc /\ NoTable /\ NoDisc

SerializeCodeBlockWithIndent ==
    /\ pc = "start"
    /\ \E inf \in Infos, ind \in Indents :
          /\ info' = inf
          /\ indent' = ind
          /\ output' = output \o serialize_code_block_with_indent(inf, literal, ind)
    /\ pc' = "serialize_code_block_with_indent"
    /\ UNCHANGED <<literal, config, in_block_quote, escVars, tableVars, discVars>>

SerializeCodeBlock ==
    /\ pc = "start"
    /\ \E inf \in Infos :
          /\ info' = inf
          /\ output' = output \o serialize_code_block(in_block_quote, inf, literal)
    /\ pc' = "serialize_code_block"
    /\ UNCHANGED <<literal, indent, config, in_block_quote, escVars, tableVars, discVars>>

SerializeCodeBlockIndented ==
    /\ pc = "start"
    /\ \E inf \in Infos, ind \in Indents :
          /\ info' = inf
          /\ indent' = ind
          /\ output' = output \o serialize_code_block_indented(in_block_quote, inf, literal, ind)
    /\ pc' = "serialize_code_block_indented"
    /\ UNCHANGED <<literal, config, in_block_quote, escVars, tableVars, discVars>>

NextCode ==
    \/ SerializeCodeBlockWithIndent
    \/ SerializeCodeBlock
    \/ SerializeCodeBlockIndented

SpecCode == InitCode /\ [][NextCode]_vars

\* the length of the fence on an emitted fence line: the run of tildes that
\* follows the line's block-quote prefix and indentation
RECURSIVE SkipPrefix(_)
SkipPrefix(line) ==
    IF line # <<>> /\ Head(line) \in {">", " "} THEN SkipPrefix(Tail(line)) ELSE line

FenceLen(line) == TakeWhileCount(SkipPrefix(line), "~")

OpeningFenceLen == FenceLen(Lines(output)[1])
ClosingFenceLen == FenceLen(Lines(output)[Len(Lines(output))])

CodeBlockDone ==
    pc \in {"serialize_code_block", "serialize_code_block_indented",
            "serialize_code_block_with_indent"}

\* the run of ch at the very start of a line
LeadingRun(line, ch) == TakeWhileCount(line, ch)

\* the longest leading run of ch over the lines of lit, 0 when there is none
MaxRun(lit, ch) ==
    LET runs == {LeadingRun(Lines(lit)[k], ch) : k \in 1..Len(Lines(lit))} \cup {0}
    IN  CHOOSE m \in runs : \A r \in runs : r <= m

\* C1: in each of the three rendering contexts the opening and the closing
\* fence are strictly longer than the leading run of tildes of every line of
\* the literal.
C1_FenceLongerThanEveryLeadingRun ==
    CodeBlockDone =>
        \A k \in 1..Len(Lines(literal)) :
            /\ OpeningFenceLen > LeadingRun(Lines(literal)[k], "~")
            /\ ClosingFenceLen > LeadingRun(Lines(literal)[k], "~")

\* C8: the fence emitted by serialize_code_block and by
\* serialize_code_block_indented has length exactly
\* max(code_block.min_fence_length, maxRun + 1), with maxRun the longest
\* leading run of the fence character over the literal's lines.
C8_FenceLengthFromConfig ==
    pc \in {"serialize_code_block", "serialize_code_block_indented"} =>
        LET expected == Max(config.min_fence_length,
                            MaxRun(literal, config.fence_char) + 1)
        IN  OpeningFenceLen = expected /\ ClosingFenceLen = expected


----------------------------------------------------------------------------
(* table.rs: serialize_table                                               *)

TableAlignments == {"None", "Left", "Center", "Right"}

\* inline content collect_inline_content may hand back for one cell
CellTexts ==
    { <<"a">>,
      <<"a", "|", "b", "c">>,
      <<"U+00E9", "a", "a">> }

\* the tables of exactly nrows rows and at most ncells cells
RECURSIVE TablesOf(_, _)
TablesOf(nrows, ncells) ==
    IF nrows = 0 THEN {<<>>}
    ELSE UNION { { <<row>> \o rest : row \in [1..k -> CellTexts],
                                     rest \in TablesOf(nrows - 1, ncells - k) } :
                 k \in 0..ncells }

\* the tables of at most MaxRows rows and MaxTableCells cells
Tables == UNION {TablesOf(n, MaxTableCells) : n \in 0..MaxRows}

\* all_cells: every cell's content, pipe-escaped
all_cells_of(rs) ==
    [r \in 1..Len(rs) |-> [i \in 1..Len(rs[r]) |-> escape_table_cell(rs[r][i])]]

\* col_widths after the measuring loops: per alignment entry, the longest
\* content.len() (bytes) of the cells of that column, floored at 3
col_widths_of(aligns, all_cells) ==
    [i \in 1..Len(aligns) |->
        LET lens == {ByteLen(all_cells[r][i]) :
                        r \in {r \in 1..Len(all_cells) : i <= Len(all_cells[r])}}
            m    == CHOOSE x \in lens \cup {0} : \A y \in lens \cup {0} : y <= x
        IN  Max(m, 3)]

\* col_widths.get(i).copied().unwrap_or(3)
width_at(col_widths, i) == IF i <= Len(col_widths) THEN col_widths[i] ELSE 3

\* format!("{:width$}", cell, width = width): pads to width characters, never truncates
pad_to(cell, width) ==
    IF Len(cell) >= width THEN cell ELSE cell \o Repeat(" ", width - Len(cell))

\* one header or data row
table_row(q, row_cells, col_widths) ==
    quote_prefix(q) \o <<"|">>
    \o Flatten([i \in 1..Len(row_cells) |->
            <<" ">> \o pad_to(row_cells[i], width_at(col_widths, i)) \o <<" ", "|">>])
    \o <<"\n">>

\* one cell of the separator row
separator_cell(alignment, width) ==
    CASE alignment = "Left"   -> <<":">> \o Repeat("-", width - 1)
      [] alignment = "Right"  -> Repeat("-", width - 1) \o <<":">>
      [] alignment = "Center" -> <<":">> \o Repeat("-", width - 2) \o <<":">>
      [] OTHER                -> Repeat("-", width)

separator_row(q, aligns, col_widths) ==
    quote_prefix(q) \o <<"|">>
    \o Flatten([i \in 1..Len(aligns) |->
            <<" ">> \o separator_cell(aligns[i], width_at(col_widths, i)) \o <<" ", "|">>])
    \o <<"\n">>

\* what serialize_table appends to the output
serialize_table(q, aligns, rs) ==
    IF rs = <<>> THEN <<>>
    ELSE LET all_cells  == all_cells_of(rs)
             col_widths == col_widths_of(aligns, all_cells)
         IN  table_row(q, all_cells[1], col_widths)
             \o separator_row(q, aligns, col_widths)
             \o Flatten([r \in 1..(Len(all_cells) - 1) |->
                            table_row(q, all_cells[r + 1], col_widths)])

InitTable ==
    /\ pc = "start"
    /\ rows \in Tables
    /\ alignments \in SeqsUpTo(TableAlignments, MaxColumns)
    /\ in_block_quote \in BOOLEAN
    /\ output = <<>>
    /\ NoEsc /\ NoCode /\ NoDisc

SerializeTable ==
    /\ pc = "start"
    /\ output' = output \o serialize_table(in_block_quote, alignments, rows)
    /\ pc' = "serialize_table"
    /\ UNCHANGED <<in_block_quote, alignments, rows, escVars, codeVars, discVars>>

NextTable == SerializeTable

SpecTable == InitTable /\ [][NextTable]_vars

\* some row has more cells than the alignment list has entries
SomeRowWiderThanAlignments ==
    \E r \in 1..Len(rows) : Len(rows[r]) > Len(alignments)

\* C9: for a table with a row wider than the alignment list serialize_table
\* does not return normally and emits no text.
C9_WiderRowIsFatal ==
    SomeRowWiderThanAlignments => (pc # "serialize_table" /\ output = <<>>)


----------------------------------------------------------------------------
(* Reading an emitted table back                                           *)

\* a line without its block-quote prefix
Unquoted(line) == IF in_block_quote THEN SubSeq(line, 3, Len(line)) ELSE line

\* the positions of the pipes that delimit cells: those not escaped
CellBoundaries(line) ==
    {p \in 1..Len(line) : line[p] = "|" /\ ~AlreadyEscaped(line, p)}

\* the k-th cell boundary from the left
NthBoundary(line, k) ==
    CHOOSE p \in CellBoundaries(line) :
        Cardinality({q \in CellBoundaries(line) : q < p}) = k - 1

\* what stands between consecutive cell boundaries of a line
EmittedCells(line) ==
    [k \in 1..(Cardinality(CellBoundaries(line)) - 1) |->
        SubSeq(line, NthBoundary(line, k) + 1, NthBoundary(line, k + 1) - 1)]

CharLen(s) == Len(s)

\* w_i: the longest pipe-escaped content of column i over all rows, at least 3
ColumnWidth(i, Measure(_)) ==
    LET lens == {Measure(escape_table_cell(rows[r][i])) :
                    r \in {r \in 1..Len(rows) : i <= Len(rows[r])}} \cup {3}
    IN  CHOOSE m \in lens : \A x \in lens : x <= m

\* a content cell: a space, the escaped content padded with spaces to w, a space
ContentCellIs(cell, c, w) ==
    cell = <<" ">> \o escape_table_cell(c) \o Repeat(" ", w - Len(escape_table_cell(c)))
              \o <<" ">>

\* a separator cell: between its spaces, w characters, the alignment's colons
\* at the ends and dashes for the rest
SeparatorCellIs(cell, alignment, w) ==
    LET left   == IF alignment \in {"Left", "Center"} THEN <<":">> ELSE <<>>
        right  == IF alignment \in {"Right", "Center"} THEN <<":">> ELSE <<>>
    IN  cell = <<" ">> \o left \o Repeat("-", w - Len(left) - Len(right)) \o right
                  \o <<" ">>

\* every emitted cell of column i is ColumnWidth(i, Measure) wide
TableLaidOut(Measure(_)) ==
    LET ls == Lines(output)
    IN  /\ Len(ls) = Len(rows) + 1
        /\ \A r \in 1..Len(rows) :
              LET line  == Unquoted(ls[IF r = 1 THEN 1 ELSE r + 1])
                  cells == EmittedCells(line)
              IN  /\ Len(cells) = Len(rows[r])
                  /\ \A i \in 1..Len(cells) :
                        /\ Len(cells[i]) - 2 = ColumnWidth(i, Measure)
                        /\ ContentCellIs(cells[i], rows[r][i], ColumnWidth(i, Measure))
        /\ LET cells == EmittedCells(Unquoted(ls[2]))
           IN  /\ Len(cells) = Len(alignments)
               /\ \A i \in 1..Len(cells) :
                     /\ Len(cells[i]) - 2 = ColumnWidth(i, Measure)
                     /\ SeparatorCellIs(cells[i], alignments[i], ColumnWidth(i, Measure))

TableWithinAlignments ==
    /\ pc = "serialize_table"
    /\ rows # <<>>
    /\ ~SomeRowWiderThanAlignments

\* C13: when no row has more cells than the alignment list, every emitted
\* cell of column i (header, separator, data rows) is exactly w_i characters
\* wide between its padding spaces, w_i = max(3, longest pipe-escaped content
\* of column i), and a separator cell is its colons plus w_i minus that many
\* dashes.
C13_CellsAsWideAsLongestContent ==
    TableWithinAlignments => TableLaidOut(CharLen)

\* What the code does keep: the same layout with the content length taken
\* in bytes (content.len()), which is the length in characters only for
\* ASCII content.
TableLaidOutByByteLength ==
    TableWithinAlignments => TableLaidOut(ByteLen)

----------------------------------------------------------------------------
(* The block-quote flag: serialize_code_block and serialize_table under    *)
(* both values of Serializer.in_block_quote                                *)

InitBlockQuote == InitCode \/ InitTable

\* the node being serialized is a code block or a table: the renderer of
\* the one kind is not run on a state that holds a node of the other kind
NextBlockQuote ==
    \/ NoTable /\ SerializeCodeBlock
    \/ NoCode /\ SerializeTable

SpecBlockQuote == InitBlockQuote /\ [][NextBlockQuote]_vars

\* the prefix the flag calls for
ExpectedPrefix == IF in_block_quote THEN <<">", " ">> ELSE <<>>

StartsWithQuote(line) == Len(line) >= 2 /\ line[1] = ">" /\ line[2] = " "

\* C14: with the flag set every line emitted by serialize_code_block
\* (opening fence, each content line, empty ones included, closing fence) and
\* by serialize_table (header, separator, data rows) begins with "> "; with
\* the flag clear no line gets the prefix; the rest of each line is the line
\* emitted with the flag clear.
C14_QuotePrefixOnEveryLine ==
    /\ pc = "serialize_code_block" =>
          LET ls      == Lines(output)
              body    == Lines(literal)
              plain   == Lines(serialize_code_block(FALSE, info, literal))
          IN  /\ Len(ls) = Len(body) + 2
              /\ Len(plain) = Len(ls)
              /\ \A k \in 1..Len(ls) :
                    /\ StartsWithQuote(ls[k]) <=> in_block_quote
                    /\ ls[k] = ExpectedPrefix \o plain[k]
              /\ \A k \in 1..Len(body) : ls[k + 1] = ExpectedPrefix \o body[k]
              /\ \A k \in {1, Len(ls)} :
                    Len(ls[k]) > Len(ExpectedPrefix)
                        /\ ls[k][Len(ExpectedPrefix) + 1] = "~"
    /\ pc = "serialize_table" =>
          LET ls     == Lines(output)
              plain  == Lines(serialize_table(FALSE, alignments, rows))
          IN  /\ Len(ls) = IF rows = <<>> THEN 0 ELSE Len(rows) + 1
              /\ Len(plain) = Len(ls)
              /\ \A k \in 1..Len(ls) :
                    /\ StartsWithQuote(ls[k]) <=> in_block_quote
                    /\ ls[k] = ExpectedPrefix \o plain[k]
                    /\ ls[k][Len(ExpectedPrefix) + 1] = "|"

C14_Witness ==
    /\ pc = "serialize_code_block"
    /\ in_block_quote
    /\ literal = <<"a", "\n", "\n", "a">>
    /\ info = <<>>
    /\ output = <<">", " ", "~", "~", "~", "~", " ", "t", "e", "x", "t", "\n",
                  ">", " ", "a", "\n",
                  ">", " ", "\n",
                  ">", " ", "a", "\n",
                  ">", " ", "~", "~", "~", "~", "\n">>

----------------------------------------------------------------------------
(* config.rs: Config::discover                                             *)
(*                                                                         *)
(* Only one chain of directories matters to a run: the root (depth 0), its *)
(* child on the way to the deepest directory (depth 1), and so on.  A path *)
(* is absolute or relative and has a number of normal components; a        *)
(* relative path is resolved against the working directory.  fs[d] tells   *)
(* what sits at .hongdown.toml in the directory of depth d.                *)

FileStates == {"absent", "valid", "malformed", "unreadable"}

\* the depth of the directory a path names
Resolve(path) == IF path.absolute THEN path.components ELSE cwd + path.components

\* the paths that name a directory of the chain: "/", "/a", "/a/b", ... and,
\* relative to the working directory, "a", "a/b", ...
StartDirs(wd) ==
    {[absolute |-> TRUE, components |-> n] : n \in 0..MaxDepth}
    \cup {[absolute |-> FALSE, components |-> n] : n \in 1..(MaxDepth - wd)}

\* config_path.exists(), for config_path = current.join(CONFIG_FILE_NAME)
config_path_exists(path) == fs[Resolve(path)] # "absent"

\* Config::from_file(&config_path), paired with the path as discover returns it
from_file(path) ==
    CASE fs[Resolve(path)] = "valid"      -> [kind |-> "Some", path |-> path]
      [] fs[Resolve(path)] = "unreadable" -> [kind |-> "Io", path |-> path]
      [] OTHER                            -> [kind |-> "Parse", path |-> path]

\* PathBuf::pop(): Path::parent() is None for the root and for the empty path
can_pop(path) == path.components > 0

popped(path) == [path EXCEPT !.components = @ - 1]

InitDiscover ==
    /\ pc = "start"
    /\ fs \in [0..MaxDepth -> FileStates]
    /\ cwd \in 0..MaxDepth
    /\ start_dir \in StartDirs(cwd)
    /\ current = [absolute |-> TRUE, components |-> 0]
    /\ examined = <<>>
    /\ ret = "pending"
    /\ NoEsc /\ NoCode /\ NoSer /\ NoTable

\* let mut current = start_dir.to_path_buf();
DiscoverEnter ==
    /\ pc = "start"
    /\ current' = start_dir
    /\ pc' = "loop"
    /\ UNCHANGED <<fs, cwd, start_dir, examined, ret, escVars, codeVars, serVars, tableVars>>

\* config_path.exists() holds: load the file and return
DiscoverFound ==
    /\ pc = "loop"
    /\ config_path_exists(current)
    /\ examined' = Append(examined, Resolve(current))
    /\ ret' = from_file(current)
    /\ pc' = "returned"
    /\ UNCHANGED <<fs, cwd, start_dir, current, escVars, codeVars, serVars, tableVars>>

\* no file here and current.pop() succeeds: go round the loop with the parent
DiscoverPop ==
    /\ pc = "loop"
    /\ ~config_path_exists(current)
    /\ can_pop(current)
    /\ examined' = Append(examined, Resolve(current))
    /\ current' = popped(current)
    /\ UNCHANGED <<pc, fs, cwd, start_dir, ret, escVars, codeVars, serVars, tableVars>>

\* no file here and current.pop() fails: break, Ok(None)
DiscoverBreak ==
    /\ pc = "loop"
    /\ ~config_path_exists(current)
    /\ ~can_pop(current)
    /\ examined' = Append(examined, Resolve(current))
    /\ ret' = [kind |-> "None", path |-> current]
    /\ pc' = "returned"
    /\ UNCHANGED <<fs, cwd, start_dir, current, escVars, codeVars, serVars, tableVars>>

NextDiscover ==
    \/ DiscoverEnter
    \/ DiscoverFound
    \/ DiscoverPop
    \/ DiscoverBreak

SpecDiscover == InitDiscover /\ [][NextDiscover]_vars

\* the directories were examined from start_dir upward, one level at a time
ExaminedUpwardFromStart ==
    \A k \in 1..Len(examined) : examined[k] = Resolve(start_dir) - (k - 1)

\* d is the nearest directory, from start_dir upward, that holds the file
NearestWithFile(d) ==
    /\ d \in 0..Resolve(start_dir)
    /\ fs[d] # "absent"
    /\ \A e \in (d + 1)..Resolve(start_dir) : fs[e] = "absent"

\* C10: discover examines start_dir, its parent, and so on up to the
\* filesystem root in that order; what it returns other than None comes from
\* the nearest directory that holds the file; it returns None only after
\* every directory of the chain, the root included, was examined without a
\* match.
C10_SearchesUpToRoot ==
    /\ ExaminedUpwardFromStart
    /\ pc = "returned" =>
          /\ ret.kind # "None" =>
                /\ NearestWithFile(Resolve(ret.path))
                /\ examined[Len(examined)] = Resolve(ret.path)
                /\ ret.kind = "Some" <=> fs[Resolve(ret.path)] = "valid"
          /\ ret.kind = "None" =>
                /\ Len(examined) = Resolve(start_dir) + 1
                /\ examined[Len(examined)] = 0
                /\ \A d \in 0..Resolve(start_dir) : fs[d] = "absent"

\* What the code does keep: the claim's statement with the chain ending
\* where PathBuf::pop() fails, which is the root for an absolute start_dir
\* and the working directory for a relative one.
DiscoverSearchesLexicalChain ==
    /\ ExaminedUpwardFromStart
    /\ pc = "returned" =>
          LET top == IF start_dir.absolute THEN 0 ELSE cwd
          IN  /\ ret.kind # "None" =>
                    /\ NearestWithFile(Resolve(ret.path))
                    /\ ret.kind = "Some" <=> fs[Resolve(ret.path)] = "valid"
              /\ ret.kind = "None" =>
                    /\ examined[Len(examined)] = top
                    /\ \A d \in top..Resolve(start_dir) : fs[d] = "absent"


====
